---------------------------- MODULE Spec2Model ----------------------------
(***************************************************************************)
(* Pocketbase-Sync: the item sync (pb.py), the relation append over a JSON *)
(* export (update.py), the plain item import (item.py) and the district    *)
(* fix (towns.py), run one after the other against one record store        *)
(* (Spec); the helpers _split_relations, _pick_col,                        *)
(* get_highlighted_row_indices and get_district_from_gmaps applied on      *)
(* their own (SpecFn); the customer upload gps.py (SpecGps).               *)
(*                                                                         *)
(* A Python string is a sequence of one-character strings, so that the     *)
(* empty string is << >> and strip() is computed, not assumed.             *)
(***************************************************************************)
EXTENDS Integers, Sequences, FiniteSets, TLC

\* rows processed over all runs of one behaviour
MaxWork == 3

VARIABLES
    store,      \* the Form_Items collection: record k has id k
    export,     \* update.json: the items of a list response saved earlier
    prog,       \* the program of the current (or last) run
    status,     \* "idle", "running", "exit0", "exit1", "crashed"
    args,       \* the command line of the run
    cols,       \* which of col_code, col_name, col_unit _pick_col resolved
    authHdr,    \* the Authorization entry of session.headers, << >> for none
    rows,       \* the sheet rows the run has consumed so far
    pos,        \* how many source rows or items the run has consumed
    counters,   \* created / updated / skipped / failed of the run
    rowReqs,    \* the requests of the last step, in order
    outcome,    \* what the last step did with its row
    tally,      \* rows of the run per outcome
    work,       \* rows processed so far, over all runs
    start,      \* the store when the run began, and whether a call failed
    prev,       \* the last completed run
    towns,      \* the Towns collection: record k has id k
    townList,   \* the towns fix_town_districts fetched
    call,       \* a helper function applied on its own: its input and its result
    customers,  \* the CustomerGPS_Update collection
    gpsStatus,  \* gps.py: "idle", "running", "done", "crashed"
    sheet,      \* gps.py: the rows of the customer sheet, as the file holds them
    records,    \* gps.py: the records read from the sheet
    gpsPos,     \* gps.py: how many records the upload has taken
    gpsReqs     \* gps.py: the requests of the last step, in order

\* the state of pb.py, update.py, item.py and towns.py
syncVars == <<store, export, prog, status, args, cols, authHdr, rows, pos, counters,
              rowReqs, outcome, tally, work, start, prev, towns, townList>>

\* the state of gps.py and of the helpers applied on their own
sideVars == <<call, customers, gpsStatus, sheet, records, gpsPos, gpsReqs>>

vars == <<syncVars, sideVars>>

---------------------------------------------------------------------------
\* Strings

Space == " "
IsSpace(c) == c \in {" ", "\t", "\n"}

RECURSIVE LStrip(_)
LStrip(s) == IF s = << >> THEN s
             ELSE IF IsSpace(Head(s)) THEN LStrip(Tail(s)) ELSE s

RECURSIVE RStrip(_)
RStrip(s) == IF s = << >> THEN s
             ELSE IF IsSpace(s[Len(s)]) THEN RStrip(SubSeq(s, 1, Len(s) - 1)) ELSE s

\* str.strip()
Strip(s) == RStrip(LStrip(s))

InSeq(x, s) == \E k \in 1..Len(s) : s[k] = x

\* A cell of a data frame read with dtype=str: a text, NaN (an empty cell), or None.
TextCell(s) == [kind |-> "str", s |-> s]
NaNCell == [kind |-> "nan", s |-> << >>]
NoneCell == [kind |-> "none", s |-> << >>]

\* str(v) of a cell value
PyStr(cell) == IF cell.kind = "nan" THEN <<"n", "a", "n">>
               ELSE IF cell.kind = "none" THEN <<"N", "o", "n", "e">>
               ELSE cell.s

\* str(row[col]).strip() if col and row.get(col) is not None else ""
CellText(has, cell) == IF has /\ cell.kind # "none" THEN Strip(PyStr(cell)) ELSE << >>

\* A JSON value of a Form field: null, a list of strings, or one string.
JNull == [kind |-> "null", list |-> << >>, str |-> << >>]
JList(l) == [kind |-> "list", list |-> l, str |-> << >>]
JStr(s) == [kind |-> "str", list |-> << >>, str |-> s]

---------------------------------------------------------------------------
\* The record store (PocketBase), seen through the HTTP calls the programs make

Fields == {"Item_Name", "Item_Code", "Unit", "Form"}

\* A request body: the fields in has are sent, the others are not in the JSON.
Body(has, name, code, unit, form) ==
    [has |-> has, Item_Name |-> name, Item_Code |-> code, Unit |-> unit, Form |-> form]

NoBody == Body({}, << >>, << >>, << >>, << >>)

\* How a store call ends: a 2xx response, a non-2xx response (raise_for_status
\* raises requests.HTTPError), or no response (requests.ConnectionError,
\* requests.Timeout: RequestException, but not HTTPError).
CallResults == {"ok", "http", "transport"}

\* session.headers without an Authorization entry
NoAuth == << >>

\* The token the store answers a login with
Token == <<"k">>

\* f"Bearer {token}"
Bearer(token) == <<"B", "e", "a", "r", "e", "r", " ">> \o token

Req(op, field, id, body, auth, res) ==
    [op |-> op, field |-> field, id |-> id, body |-> body, auth |-> auth, res |-> res]

\* POST /api/collections/{collection}/records: a field left out gets its zero value
StoreCreate(s, body) ==
    Append(s, [f \in Fields |-> IF f \in body.has THEN body[f] ELSE << >>])

\* PATCH /api/collections/{collection}/records/{id}: only the fields sent change
StorePatch(s, id, body) ==
    [s EXCEPT ![id] = [f \in Fields |-> IF f \in body.has THEN body[f] ELSE @[f]]]

\* filt = f'{field}="{value}"'
pb_filter(field, value) == <<field, "=", "\"">> \o value \o <<"\"">>

\* How the store reads a filter: a field, an operator, and a text in double
\* quotes that ends at the next double quote. A filter that goes on after that
\* quote is no expression, and the store answers 400.
ReadFilter(filt) ==
    LET quotes == {k \in 4..Len(filt) : filt[k] = "\""}
        close == CHOOSE k \in quotes : \A j \in quotes : k <= j
    IN  [ok |-> close = Len(filt), field |-> filt[1], op |-> filt[2],
         value |-> SubSeq(filt, 4, close - 1)]

\* GET ...?filter=field="value": the ids of the records the filter selects
find_by_field(s, field, value) ==
    LET f == ReadFilter(pb_filter(field, value))
    IN  IF f.ok THEN {k \in 1..Len(s) : s[k][f.field] = f.value} ELSE {}

\* The Form of a record as the store's JSON gives it
FormJson(rec) == JList(rec.Form)

---------------------------------------------------------------------------
\* Inputs

Row(code, name, unit, form) == [code |-> code, name |-> name, unit |-> unit, form |-> form]

\* The rows a sheet may hold.
SourceRows ==
    { Row(TextCell(<<"A">>), TextCell(<<"X">>), TextCell(<<"u">>), TextCell(<<"x", ",", "x">>)),
      Row(TextCell(<<" ", "A">>), TextCell(<<"Y">>), NaNCell, NaNCell),
      Row(TextCell(<<" ">>), TextCell(<<"X", " ">>), TextCell(<<"u">>), TextCell(<<"x", ";", " ", "y">>)),
      Row(NaNCell, NaNCell, NaNCell, NoneCell),
      Row(NoneCell, NoneCell, NoneCell, NoneCell),
      Row(NoneCell, TextCell(<<"Q", "\"">>), NoneCell, NoneCell) }

\* The columns _pick_col resolved in the sheet's header
AllCols == [code |-> TRUE, name |-> TRUE, unit |-> TRUE, form |-> TRUE]
NameCols == [code |-> FALSE, name |-> TRUE, unit |-> FALSE, form |-> FALSE]
NoCols == [code |-> FALSE, name |-> FALSE, unit |-> TRUE, form |-> FALSE]

\* --auth, --email/--password, and how the login request ends
Public == [auth |-> "public", creds |-> FALSE, login |-> "ok"]
Admin(creds, login) == [auth |-> "admin", creds |-> creds, login |-> login]

\* One invocation: whether the source file can be read, its header, and the
\* command line.
Launch(readable, c, rel, dry, a) ==
    [readable |-> readable, cols |-> c, rel |-> rel, dry |-> dry, auth |-> a]

\* The invocations a run is drawn from.
Launches ==
    { Launch(TRUE, AllCols, <<"x">>, FALSE, Public),
      Launch(TRUE, AllCols, <<"y">>, FALSE, Admin(TRUE, "ok")),
      Launch(TRUE, AllCols, << >>, FALSE, Public),
      Launch(TRUE, AllCols, <<"x">>, TRUE, Admin(TRUE, "ok")),
      Launch(TRUE, NameCols, <<"x">>, FALSE, Public),
      Launch(TRUE, NoCols, <<"x">>, FALSE, Public),
      Launch(FALSE, AllCols, <<"x">>, FALSE, Public),
      Launch(TRUE, AllCols, <<"x">>, FALSE, Admin(FALSE, "ok")),
      Launch(TRUE, AllCols, <<"x">>, FALSE, Admin(TRUE, "notoken")),
      Launch(TRUE, AllCols, <<"x">>, FALSE, Admin(TRUE, "http")),
      Launch(TRUE, AllCols, <<"x">>, FALSE, Admin(TRUE, "transport")) }

ZeroCounters == [created |-> 0, updated |-> 0, skipped |-> 0, failed |-> 0]

Outcomes == {"invalid", "unchanged", "created", "updated", "failed", "dry", "crashed"}

ZeroTally == [o \in Outcomes |-> 0]

NoPrev == [prog |-> "none", rows |-> << >>, cols |-> AllCols, rel |-> << >>, clean |-> FALSE]

\* The Towns collection as Add.py and an earlier fix left it: a town without a
\* district, a town with one, another town without.
TownsAtStart ==
    << [name |-> <<"T">>, district |-> 0], [name |-> <<"U">>, district |-> 2],
       [name |-> <<"V">>, district |-> 0] >>

\* no helper applied
NoCall == [fn |-> "none"]

Ended == status \in {"idle", "exit0", "exit1", "crashed"}

\* pb.py, update.py, item.py and towns.py before their first run
SyncInit ==
    /\ store = << >>
    /\ export = << >>
    /\ prog = "none"
    /\ status = "idle"
    /\ args = [rel |-> << >>, dry |-> FALSE, auth |-> "public"]
    /\ cols = AllCols
    /\ authHdr = NoAuth
    /\ rows = << >>
    /\ pos = 0
    /\ counters = ZeroCounters
    /\ rowReqs = << >>
    /\ outcome = "none"
    /\ tally = ZeroTally
    /\ work = 0
    /\ start = [store |-> << >>, failed |-> FALSE]
    /\ prev = NoPrev
    /\ towns = TownsAtStart
    /\ townList = << >>

\* gps.py before its run
GpsInit ==
    /\ customers = << >>
    /\ gpsStatus = "idle"
    /\ sheet = << >>
    /\ records = << >>
    /\ gpsPos = 0
    /\ gpsReqs = << >>

Init == SyncInit /\ call = NoCall /\ GpsInit

---------------------------------------------------------------------------
\* pb.py: the item sync

\* What a step hands back: the requests it made, the store it leaves, the
\* row's outcome, and the counters it raised.
Step(reqs, s, out, created, updated, skipped, failed) ==
    [reqs |-> reqs, store |-> s, outcome |-> out,
     inc |-> [created |-> created, updated |-> updated, skipped |-> skipped, failed |-> failed]]

\* How main gets to its loop: the source is read, the columns are resolved,
\* the session is authenticated.
Setup(st, hdr, reqs) == [status |-> st, authHdr |-> hdr, reqs |-> reqs]

\* Mutant: the token read and the session left without the header
login_admin_header_unset(a) ==
    IF a.login = "ok"
    THEN Setup("running", NoAuth,
               <<Req("login", "", 0, NoBody, NoAuth, "ok") @@ [token |-> Token]>>)
    ELSE Setup("crashed", NoAuth,
               <<Req("login", "", 0, NoBody, NoAuth, a.login) @@ [token |-> << >>]>>)

\* login_admin: the Authorization header is set only from a 2xx response that
\* carries a token; every other end raises out of main.
login_admin(a) ==
    IF a.login = "ok"
    THEN Setup("running", Bearer(Token),
               <<Req("login", "", 0, NoBody, NoAuth, "ok") @@ [token |-> Token]>>)
    ELSE Setup("crashed", NoAuth,
               <<Req("login", "", 0, NoBody, NoAuth, a.login) @@ [token |-> << >>]>>)

\* Mutant: the session authenticated in a dry run too
pb_auth_in_dry_run(dry, a) ==
    IF a.auth = "admin"
    THEN IF ~a.creds THEN Setup("exit1", NoAuth, << >>) ELSE login_admin(a)
    ELSE Setup("running", NoAuth, << >>)

\* if not args.dry_run: admin needs credentials and logs in, public clears the header
pb_auth(dry, a) ==
    IF dry THEN Setup("running", NoAuth, << >>)
    ELSE IF a.auth = "admin"
         THEN IF ~a.creds THEN Setup("exit1", NoAuth, << >>) ELSE login_admin(a)
         ELSE Setup("running", NoAuth, << >>)

\* Mutant: the check for a code or a name column left out
pb_setup_no_column_check(readable, c, dry, a) ==
    IF ~readable THEN Setup("crashed", NoAuth, << >>)
    ELSE pb_auth(dry, a)

\* main up to the loop
pb_setup(readable, c, dry, a) ==
    IF ~readable THEN Setup("crashed", NoAuth, << >>)
    ELSE IF ~c.name /\ ~c.code THEN Setup("exit1", NoAuth, << >>)
    ELSE pb_auth(dry, a)

\* Look up existing by Item_Code if available, otherwise by name
pb_lookup_key(item_code, item_name) ==
    IF item_code # << >> THEN [field |-> "Item_Code", value |-> item_code]
    ELSE [field |-> "Item_Name", value |-> item_name]

\* current_form = rec.get("Form") or []; a value that is no list is wrapped
pb_current_form(j) ==
    IF j.kind = "null" THEN << >>
    ELSE IF j.kind = "list" THEN j.list
    ELSE IF j.str = << >> THEN << >> ELSE <<j.str>>

\* Mutant: the relation id put in front of the list
pb_new_form_front(current_form, relation_id) == <<relation_id>> \o current_form

\* new_form = current_form + [relation_id]
pb_new_form(current_form, relation_id) == Append(current_form, relation_id)

\* Mutant: the whole record sent again
pb_update_payload_full(new_form, item_name, item_code, unit) ==
    Body(Fields, item_name, item_code, unit, new_form)

\* payload = {"Form": new_form}
pb_update_payload(new_form, item_name, item_code, unit) ==
    Body({"Form"}, << >>, << >>, << >>, new_form)

\* The create body: name and code always, Unit and Form only when not empty
pb_create_data(item_name, item_code, unit, relation_id) ==
    Body({"Item_Name", "Item_Code"}
            \cup (IF unit # << >> THEN {"Unit"} ELSE {})
            \cup (IF relation_id # << >> THEN {"Form"} ELSE {}),
         item_name, item_code, unit,
         IF relation_id # << >> THEN <<relation_id>> ELSE << >>)

\* Mutant: the existing branch without the test for the id being there
pb_existing_no_test(s, lookup, hit, item_name, item_code, unit, relation_id, dry, hdr, mu) ==
    LET current_form == pb_current_form(FormJson(s[hit]))
        payload == pb_update_payload(pb_new_form(current_form, relation_id),
                                     item_name, item_code, unit)
        upd == Req("update", "", hit, payload, hdr, mu)
    IN  IF dry THEN Step(lookup, s, "dry", 0, 0, 0, 0)
        ELSE IF mu = "ok"
             THEN Step(lookup \o <<upd>>, StorePatch(s, hit, payload), "updated", 0, 1, 0, 0)
        ELSE IF mu = "http" THEN Step(lookup \o <<upd>>, s, "failed", 0, 0, 0, 0)
        ELSE Step(lookup \o <<upd>>, s, "crashed", 0, 0, 0, 0)

\* The existing branch: skip, or PATCH the longer list
pb_existing(s, lookup, hit, item_name, item_code, unit, relation_id, dry, hdr, mu) ==
    LET current_form == pb_current_form(FormJson(s[hit]))
        payload == pb_update_payload(pb_new_form(current_form, relation_id),
                                     item_name, item_code, unit)
        upd == Req("update", "", hit, payload, hdr, mu)
    IN  IF InSeq(relation_id, current_form) THEN Step(lookup, s, "unchanged", 0, 0, 0, 0)
        ELSE IF dry THEN Step(lookup, s, "dry", 0, 0, 0, 0)
        ELSE IF mu = "ok"
             THEN Step(lookup \o <<upd>>, StorePatch(s, hit, payload), "updated", 0, 1, 0, 0)
        ELSE IF mu = "http" THEN Step(lookup \o <<upd>>, s, "failed", 0, 0, 0, 0)
        ELSE Step(lookup \o <<upd>>, s, "crashed", 0, 0, 0, 0)

\* Mutant: the record created bare and the relation added by a PATCH after it
pb_create_then_link(s, lookup, item_name, item_code, unit, relation_id, dry, hdr, mu) ==
    LET data == pb_create_data(item_name, item_code, unit, << >>)
        crt == Req("create", "", 0, data, hdr, mu)
        link == Body({"Form"}, << >>, << >>, << >>, <<relation_id>>)
        upd == Req("update", "", Len(s) + 1, link, hdr, mu)
    IN  IF dry THEN Step(lookup, s, "dry", 0, 0, 0, 0)
        ELSE IF mu = "ok"
             THEN Step(lookup \o <<crt, upd>>,
                       StorePatch(StoreCreate(s, data), Len(s) + 1, link), "created", 1, 0, 0, 0)
        ELSE IF mu = "http" THEN Step(lookup \o <<crt>>, s, "failed", 0, 0, 0, 0)
        ELSE Step(lookup \o <<crt>>, s, "crashed", 0, 0, 0, 0)

\* Mutant: created raised before the call, so a failed create counts too
pb_create_counts_first(s, lookup, item_name, item_code, unit, relation_id, dry, hdr, mu) ==
    LET data == pb_create_data(item_name, item_code, unit, relation_id)
        crt == Req("create", "", 0, data, hdr, mu)
    IN  IF dry THEN Step(lookup, s, "dry", 0, 0, 0, 0)
        ELSE IF mu = "ok"
             THEN Step(lookup \o <<crt>>, StoreCreate(s, data), "created", 1, 0, 0, 0)
        ELSE IF mu = "http" THEN Step(lookup \o <<crt>>, s, "failed", 1, 0, 0, 0)
        ELSE Step(lookup \o <<crt>>, s, "crashed", 1, 0, 0, 0)

\* The else branch: POST the new record
pb_create(s, lookup, item_name, item_code, unit, relation_id, dry, hdr, mu) ==
    LET data == pb_create_data(item_name, item_code, unit, relation_id)
        crt == Req("create", "", 0, data, hdr, mu)
    IN  IF dry THEN Step(lookup, s, "dry", 0, 0, 0, 0)
        ELSE IF mu = "ok"
             THEN Step(lookup \o <<crt>>, StoreCreate(s, data), "created", 1, 0, 0, 0)
        ELSE IF mu = "http" THEN Step(lookup \o <<crt>>, s, "failed", 0, 0, 0, 0)
        ELSE Step(lookup \o <<crt>>, s, "crashed", 0, 0, 0, 0)

\* One turn of the loop. lk and mu are how the lookup and the create or update
\* end; hit is the record the lookup returns (perPage=1), 0 when it returns none.
\* The lookup's entry in the request log names that record.
pb_row(s, row, c, relation_id, dry, hdr, lk, mu, hit) ==
    LET item_name == CellText(c.name, row.name)
        item_code == CellText(c.code, row.code)
        unit == CellText(c.unit, row.unit)
        key == pb_lookup_key(item_code, item_name)
        lookup == <<Req("lookup", key.field, IF lk = "ok" THEN hit ELSE 0, NoBody, hdr, lk)
                      @@ [filter |-> pb_filter(key.field, key.value)]>>
    IN  IF item_name = << >> /\ item_code = << >> THEN Step(<< >>, s, "invalid", 0, 0, 0, 0)
        ELSE IF lk = "transport" THEN Step(lookup, s, "crashed", 0, 0, 0, 0)
        ELSE IF lk = "ok" /\ hit # 0
             THEN pb_existing(s, lookup, hit, item_name, item_code, unit, relation_id, dry, hdr, mu)
        ELSE pb_create(s, lookup, item_name, item_code, unit, relation_id, dry, hdr, mu)

\* What the lookup of a row can return: the records the filter selects, 0 for
\* none; a filter the store cannot read gets no 2xx answer
pb_hits(s, row, c, lk) ==
    LET key == pb_lookup_key(CellText(c.code, row.code), CellText(c.name, row.name))
        found == find_by_field(s, key.field, key.value)
    IN  IF lk = "ok" /\ key.value # << >> /\ ~ReadFilter(pb_filter(key.field, key.value)).ok THEN {}
        ELSE IF lk = "ok" /\ found # {} /\ key.value # << >> THEN found ELSE {0}

\* The state a program starts from
Begin(p, setup, a, c) ==
    /\ prog' = p
    /\ status' = setup.status
    /\ authHdr' = setup.authHdr
    /\ rowReqs' = setup.reqs
    /\ args' = a
    /\ cols' = c
    /\ rows' = << >>
    /\ pos' = 0
    /\ counters' = ZeroCounters
    /\ outcome' = "none"
    /\ tally' = ZeroTally
    /\ start' = [store |-> store, failed |-> FALSE]
    /\ UNCHANGED <<store, export, work, prev, towns, townList>>
    /\ UNCHANGED sideVars

\* What a turn of a loop leaves
Turn(consumed, r) ==
    /\ store' = r.store
    /\ rowReqs' = r.reqs
    /\ outcome' = r.outcome
    /\ status' = IF r.outcome = "crashed" THEN "crashed" ELSE "running"
    /\ counters' = [k \in DOMAIN counters |-> counters[k] + r.inc[k]]
    /\ tally' = [tally EXCEPT ![r.outcome] = @ + 1]
    /\ rows' = rows \o consumed
    /\ pos' = pos + 1
    /\ work' = work + 1
    /\ start' = [start EXCEPT !.failed = @ \/ \E k \in 1..Len(r.reqs) : r.reqs[k].res # "ok"]
    /\ prev' = IF r.outcome = "crashed" THEN NoPrev ELSE prev
    /\ UNCHANGED <<export, prog, args, cols, authHdr, towns, townList>>
    /\ UNCHANGED sideVars

PbStart ==
    /\ Ended /\ work < MaxWork
    /\ \E l \in Launches :
          Begin("pb", pb_setup(l.readable, l.cols, l.dry, l.auth),
                [rel |-> l.rel, dry |-> l.dry, auth |-> l.auth.auth], l.cols)

PbRow ==
    /\ prog = "pb" /\ status = "running" /\ work < MaxWork
    /\ \E row \in SourceRows, lk \in CallResults, mu \in CallResults :
          \E hit \in pb_hits(store, row, cols, lk) :
             Turn(<<row>>, pb_row(store, row, cols, args.rel, args.dry, authHdr, lk, mu, hit))

\* print("Done. ...") and return 0
PbEnd ==
    /\ prog = "pb" /\ status = "running"
    /\ status' = "exit0"
    /\ rowReqs' = << >>
    /\ outcome' = "none"
    /\ prev' = IF start.store = << >> /\ ~start.failed /\ ~args.dry /\ rows # << >>
               THEN [prog |-> "pb", rows |-> rows, cols |-> cols, rel |-> args.rel, clean |-> TRUE]
               ELSE NoPrev
    /\ UNCHANGED <<store, export, prog, args, cols, authHdr, rows, pos, counters, tally, work, start,
                   towns, townList>>
    /\ UNCHANGED sideVars

---------------------------------------------------------------------------
\* update.py: append a Form relation id to the records of update.json

\* An element of the "items" array
Item(isdict, id, form) == [isdict |-> isdict, id |-> id, Form |-> form]

\* The elements update.json may hold after the records it lists: one that is
\* no object, an object without an id. Which one is there shows when the loop
\* reaches it.
Strays == { Item(FALSE, 0, JNull), Item(TRUE, 0, JNull) }
Stray == [isdict |-> FALSE, id |-> -1, Form |-> JNull]

\* The list response of the collection, saved as update.json
ListResponse(s) == [k \in 1..Len(s) |-> Item(TRUE, k, FormJson(s[k]))]

SaveExport ==
    /\ Ended /\ work < MaxWork
    /\ export' = ListResponse(store) \o <<Stray>>
    /\ export' # export
    /\ UNCHANGED <<store, prog, status, args, cols, authHdr, rows, pos, counters,
                   rowReqs, outcome, tally, work, start, prev, towns, townList>>
    /\ UNCHANGED sideVars

\* [str(v) for v in val if str(v).strip()]
RECURSIVE as_list_items(_)
as_list_items(l) ==
    IF l = << >> THEN << >>
    ELSE IF Strip(Head(l)) # << >> THEN <<Head(l)>> \o as_list_items(Tail(l))
    ELSE as_list_items(Tail(l))

as_list(j) ==
    IF j.kind = "null" THEN << >>
    ELSE IF j.kind = "list" THEN as_list_items(j.list)
    ELSE IF Strip(j.str) # << >> THEN <<Strip(j.str)>> ELSE << >>

\* main up to the loop: the file is read, the session authenticated, and only
\* then the id to add is checked
update_setup(readable, dry, a, add_form_id) ==
    LET auth == pb_auth(dry, a)
    IN  IF ~readable THEN Setup("crashed", NoAuth, << >>)
        ELSE IF auth.status # "running" THEN auth
        ELSE IF Strip(add_form_id) = << >> THEN Setup("exit1", auth.authHdr, auth.reqs)
        ELSE auth

\* patch = {"Form": new_form}
update_patch(new_form) == Body({"Form"}, << >>, << >>, << >>, new_form)

\* One turn of the loop over items. mu is how the PATCH ends; a PATCH of an id
\* the store does not hold cannot end well.
update_item(s, it, add_id, dry, hdr, mu) ==
    LET current_form == as_list(it.Form)
        patch == update_patch(Append(current_form, add_id))
        upd == Req("update", "", it.id, patch, hdr, mu)
    IN  IF ~it.isdict THEN Step(<< >>, s, "invalid", 0, 0, 1, 0)
        ELSE IF it.id = 0 THEN Step(<< >>, s, "invalid", 0, 0, 1, 0)
        ELSE IF InSeq(add_id, current_form) THEN Step(<< >>, s, "unchanged", 0, 0, 1, 0)
        ELSE IF dry THEN Step(<< >>, s, "dry", 0, 0, 0, 0)
        ELSE IF mu = "ok"
             THEN Step(<<upd>>, StorePatch(s, it.id, patch), "updated", 0, 1, 0, 0)
        ELSE IF mu = "http" THEN Step(<<upd>>, s, "failed", 0, 0, 0, 1)
        ELSE Step(<<upd>>, s, "crashed", 0, 0, 0, 0)

UpdateStart ==
    /\ Ended /\ work < MaxWork
    /\ \E l \in Launches :
          Begin("update", update_setup(l.readable, l.dry, l.auth, l.rel),
                [rel |-> Strip(l.rel), dry |-> l.dry, auth |-> l.auth.auth], AllCols)

UpdateRow ==
    /\ prog = "update" /\ status = "running" /\ work < MaxWork
    /\ pos < Len(export)
    /\ \E mu \in CallResults, it \in (IF export[pos + 1] = Stray THEN Strays ELSE {export[pos + 1]}) :
          Turn(<< >>, update_item(store, it, args.rel, args.dry, authHdr, mu))

\* print("Done. ...") and return 0
UpdateEnd ==
    /\ prog = "update" /\ status = "running"
    /\ pos = Len(export)
    /\ status' = "exit0"
    /\ rowReqs' = << >>
    /\ outcome' = "none"
    /\ prev' = NoPrev
    /\ UNCHANGED <<store, export, prog, args, cols, authHdr, rows, pos, counters, tally, work, start,
                   towns, townList>>
    /\ UNCHANGED sideVars

---------------------------------------------------------------------------
\* item.py: the plain import, one create per row

IsSep(c) == c \in {",", ";", "\n", "\t"}

\* re.split(r"[,;\n\t]+", s): acc are the parts closed so far, cur the open one
RECURSIVE re_split(_, _, _)
re_split(s, cur, acc) ==
    IF s = << >> THEN Append(acc, cur)
    ELSE IF IsSep(Head(s))
         THEN IF Len(s) > 1 /\ IsSep(s[2]) THEN re_split(Tail(s), cur, acc)
              ELSE re_split(Tail(s), << >>, Append(acc, cur))
    ELSE re_split(Tail(s), Append(cur, Head(s)), acc)

\* Mutant: the parts kept as they were split, not stripped
RECURSIVE strip_parts_untrimmed(_)
strip_parts_untrimmed(parts) ==
    IF parts = << >> THEN << >>
    ELSE IF Strip(Head(parts)) # << >> THEN <<Head(parts)>> \o strip_parts_untrimmed(Tail(parts))
    ELSE strip_parts_untrimmed(Tail(parts))

\* [p.strip() for p in parts if p.strip()]
RECURSIVE strip_parts(_)
strip_parts(parts) ==
    IF parts = << >> THEN << >>
    ELSE IF Strip(Head(parts)) # << >> THEN <<Strip(Head(parts))>> \o strip_parts(Tail(parts))
    ELSE strip_parts(Tail(parts))

split_relations(cell) ==
    IF cell.kind \in {"none", "nan"} THEN << >>
    ELSE IF Strip(PyStr(cell)) = << >> THEN << >>
    ELSE strip_parts(re_split(Strip(PyStr(cell)), << >>, << >>))

\* main up to the loop: Item_Name, Item_Code and Unit are all required
item_setup(readable, c, dry, a) ==
    IF ~readable THEN Setup("crashed", NoAuth, << >>)
    ELSE IF ~c.name \/ ~c.code \/ ~c.unit THEN Setup("exit1", NoAuth, << >>)
    ELSE pb_auth(dry, a)

\* data: name, code and Unit always, Form when the cell holds relations
item_data(item_name, item_code, unit, rels) ==
    Body({"Item_Name", "Item_Code", "Unit"} \cup (IF rels # << >> THEN {"Form"} ELSE {}),
         item_name, item_code, unit, rels)

\* One turn of the loop
item_row(s, row, c, dry, hdr, mu) ==
    LET item_name == CellText(TRUE, row.name)
        item_code == CellText(TRUE, row.code)
        unit == CellText(TRUE, row.unit)
        rels == IF c.form THEN split_relations(row.form) ELSE << >>
        data == item_data(item_name, item_code, unit, rels)
        crt == Req("create", "", 0, data, hdr, mu)
    IN  IF item_name = << >> /\ item_code = << >> THEN Step(<< >>, s, "invalid", 0, 0, 0, 0)
        ELSE IF dry THEN Step(<< >>, s, "dry", 0, 0, 0, 0)
        ELSE IF mu = "ok" THEN Step(<<crt>>, StoreCreate(s, data), "created", 1, 0, 0, 0)
        ELSE IF mu = "http" THEN Step(<<crt>>, s, "failed", 0, 0, 0, 0)
        ELSE Step(<<crt>>, s, "crashed", 0, 0, 0, 0)

ItemStart ==
    /\ Ended /\ work < MaxWork
    /\ \E l \in Launches :
          Begin("item", item_setup(l.readable, l.cols, l.dry, l.auth),
                [rel |-> << >>, dry |-> l.dry, auth |-> l.auth.auth], l.cols)

ItemRow ==
    /\ prog = "item" /\ status = "running" /\ work < MaxWork
    /\ \E row \in SourceRows, mu \in CallResults :
          Turn(<<row>>, item_row(store, row, cols, args.dry, authHdr, mu))

\* print("Done. ...") and return 0
ItemEnd ==
    /\ prog = "item" /\ status = "running"
    /\ status' = "exit0"
    /\ rowReqs' = << >>
    /\ outcome' = "none"
    /\ prev' = NoPrev
    /\ UNCHANGED <<store, export, prog, args, cols, authHdr, rows, pos, counters, tally, work, start,
                   towns, townList>>
    /\ UNCHANGED sideVars

---------------------------------------------------------------------------
\* towns.py: fill in the district of the towns that have none

\* The Districts collection
Districts == << [id |-> 1, name |-> <<"G", "a", "l", "l", "e">>],
                [id |-> 2, name |-> <<"K", "a", "n", "d", "y">>] >>

\* str.lower(), on the letters the names are written in
LowerChar(c) ==
    CASE c = "G" -> "g" [] c = "K" -> "k" [] c = "A" -> "a" [] c = "L" -> "l"
      [] c = "E" -> "e" [] c = "M" -> "m" [] OTHER -> c

Lower(s) == [k \in 1..Len(s) |-> LowerChar(s[k])]

\* a in b, for strings
IsSubstr(a, b) == \E i \in 0..(Len(b) - Len(a)) : SubSeq(b, i + 1, i + Len(a)) = a

\* The first district whose name holds district_name, whatever the case; 0 for None
get_district_id_by_name(districts, district_name) ==
    LET found == {k \in 1..Len(districts) : IsSubstr(Lower(district_name), Lower(districts[k].name))}
    IN  IF found = {} THEN 0
        ELSE districts[CHOOSE k \in found : \A j \in found : k <= j].id

\* One address component of a geocoding result
Comp(level2, long_name) == [level2 |-> level2, long_name |-> long_name]

\* How the geocoding request ends: no response, a non-200 response, a status
\* other than OK, or OK with the first result's address components.
Geo(kind, comps) == [kind |-> kind, comps |-> comps]

GeoAnswers ==
    { Geo("transport", << >>), Geo("http", << >>), Geo("status", << >>),
      Geo("ok", << >>),
      Geo("ok", <<Comp(FALSE, <<"T">>), Comp(TRUE, <<"G", "a", "l", "l", "e">>)>>),
      Geo("ok", <<Comp(TRUE, <<"k", "a", "n">>), Comp(TRUE, <<"G", "a", "l", "l", "e">>)>>),
      Geo("ok", <<Comp(TRUE, <<"M", "a", "t", "a", "l", "e">>)>>) }

\* The long_name of the first component tagged administrative_area_level_2;
\* the empty string stands for None
RECURSIVE first_level2(_)
first_level2(comps) ==
    IF comps = << >> THEN << >>
    ELSE IF Head(comps).level2 THEN Head(comps).long_name
    ELSE first_level2(Tail(comps))

\* Mutant: the name of the first component, whatever its types
get_district_from_gmaps_untyped(geo) ==
    [reqs |-> <<Req("geocode", "address", 0, NoBody, NoAuth, geo.kind) @@ [answer |-> geo.comps]>>,
     name |-> IF geo.kind = "ok" /\ geo.comps # << >> THEN Head(geo.comps).long_name ELSE << >>]

\* get_district_from_gmaps: one GET, and the name read from its answer; what
\* the try block raises is caught and None returned
get_district_from_gmaps(geo) ==
    [reqs |-> <<Req("geocode", "address", 0, NoBody, NoAuth, geo.kind) @@ [answer |-> geo.comps]>>,
     name |-> IF geo.kind = "ok" THEN first_level2(geo.comps) ELSE << >>]

\* payload = {"district": district_id}
TownBody(has, name, district) == [has |-> has, name |-> name, district |-> district]

town_payload(town, district_id) == TownBody({"district"}, << >>, district_id)

\* PATCH /api/collections/Towns/records/{id}: only the fields sent change
TownPatch(t, id, body) ==
    [t EXCEPT ![id] = [name |-> IF "name" \in body.has THEN body.name ELSE @.name,
                       district |-> IF "district" \in body.has THEN body.district ELSE @.district]]

\* The list response of the Towns collection
TownItems(t) == [k \in 1..Len(t) |-> [id |-> k, name |-> t[k].name, district |-> t[k].district]]

\* What a turn of the loop over the towns hands back
TownStep(reqs, t, out) == [reqs |-> reqs, towns |-> t, outcome |-> out]

\* update_town_district: a 200 is an update, anything else is printed
update_town_district(t, town, district_id, mu) ==
    LET payload == town_payload(town, district_id)
        upd == Req("update", "district", town.id, payload, NoAuth, mu)
    IN  IF mu = "ok" THEN TownStep(<<upd>>, TownPatch(t, town.id, payload), "updated")
        ELSE TownStep(<<upd>>, t, "failed")

\* Mutant: the town looked up whether it has a district or not
fix_town_every(t, town, geo, mu) ==
    LET gmaps == get_district_from_gmaps(geo).reqs
        district_name == get_district_from_gmaps(geo).name
        district_id == get_district_id_by_name(Districts, district_name)
    IN  IF district_name = << >> THEN TownStep(gmaps, t, "invalid")
        ELSE IF district_id = 0 THEN TownStep(gmaps, t, "invalid")
        ELSE LET u == update_town_district(t, town, district_id, mu)
             IN  TownStep(gmaps \o u.reqs, u.towns, u.outcome)

\* One turn of the loop of fix_town_districts
fix_town(t, town, geo, mu) ==
    LET gmaps == get_district_from_gmaps(geo).reqs
        district_name == get_district_from_gmaps(geo).name
        district_id == get_district_id_by_name(Districts, district_name)
    IN  IF town.district # 0 THEN TownStep(<< >>, t, "unchanged")
        ELSE IF district_name = << >> THEN TownStep(gmaps, t, "invalid")
        ELSE IF district_id = 0 THEN TownStep(gmaps, t, "invalid")
        ELSE LET u == update_town_district(t, town, district_id, mu)
             IN  TownStep(gmaps \o u.reqs, u.towns, u.outcome)

\* fix_town_districts up to its loop: both lists are fetched, or it returns
TownsStart ==
    /\ Ended /\ work < MaxWork
    /\ \E fetched \in BOOLEAN :
          /\ prog' = "towns"
          /\ status' = IF fetched THEN "running" ELSE "exit0"
          /\ townList' = IF fetched THEN TownItems(towns) ELSE << >>
    /\ authHdr' = NoAuth
    /\ rowReqs' = << >>
    /\ args' = [rel |-> << >>, dry |-> FALSE, auth |-> "public"]
    /\ cols' = AllCols
    /\ rows' = << >>
    /\ pos' = 0
    /\ counters' = ZeroCounters
    /\ outcome' = "none"
    /\ tally' = ZeroTally
    /\ start' = [store |-> store, failed |-> FALSE]
    /\ UNCHANGED <<store, export, work, prev, towns>>
    /\ UNCHANGED sideVars

TownsRow ==
    /\ prog = "towns" /\ status = "running" /\ work < MaxWork
    /\ pos < Len(townList)
    /\ \E geo \in GeoAnswers, mu \in CallResults :
          LET r == fix_town(towns, townList[pos + 1], geo, mu)
          IN  /\ towns' = r.towns
              /\ rowReqs' = r.reqs
              /\ outcome' = r.outcome
              /\ tally' = [tally EXCEPT ![r.outcome] = @ + 1]
    /\ pos' = pos + 1
    /\ work' = work + 1
    /\ UNCHANGED <<store, export, prog, status, args, cols, authHdr, rows, counters,
                   start, prev, townList>>
    /\ UNCHANGED sideVars

TownsEnd ==
    /\ prog = "towns" /\ status = "running"
    /\ pos = Len(townList)
    /\ status' = "exit0"
    /\ rowReqs' = << >>
    /\ outcome' = "none"
    /\ prev' = NoPrev
    /\ UNCHANGED <<store, export, prog, args, cols, authHdr, rows, pos, counters, tally, work, start,
                   towns, townList>>
    /\ UNCHANGED sideVars

---------------------------------------------------------------------------

Next ==
    \/ PbStart \/ PbRow \/ PbEnd
    \/ SaveExport
    \/ UpdateStart \/ UpdateRow \/ UpdateEnd
    \/ ItemStart \/ ItemRow \/ ItemEnd
    \/ TownsStart \/ TownsRow \/ TownsEnd

Spec == Init /\ [][Next]_vars

---------------------------------------------------------------------------
\* The helpers, each applied on its own to the values it may be given

\* the longest text a cell or a label holds
MaxLen == 4

Texts(alphabet, n) == UNION { [1..k -> alphabet] : k \in 0..n }

\* The cells of a Form column: empty, absent, or a text of ids, separators
\* and white space
FormCells ==
    {NaNCell, NoneCell} \cup {TextCell(s) : s \in Texts({"x", "y", ",", ";", " ", "\n"}, MaxLen)}

\* rels = _split_relations(row.get(col_form)) and the data built with it
SplitRelations ==
    /\ call.fn = "_split_relations" /\ ~call.done
    /\ LET rels == split_relations(call.val)
       IN  call' = [call EXCEPT !.done = TRUE, !.rels = rels,
                                !.data = item_data(<<"X">>, <<"A">>, <<"u">>, rels)]
    /\ UNCHANGED <<syncVars, customers, gpsStatus, sheet, records, gpsPos, gpsReqs>>

\* the most columns a sheet has
MaxCols == 2

\* the most candidate labels _pick_col is given
MaxCands == 2

\* Column labels: three written differently that normalize alike, three others
Labels ==
    { <<"A", " ", "E">>, <<"a", "_", "e">>, <<"A", "E">>,
      <<"a", "e", "1">>, <<" ", "E", " ">>, <<"a">>, <<"e", "-">> }

\* df.columns: labels, no two the same
Headers ==
    { h \in UNION { [1..k -> Labels] : k \in 1..MaxCols } :
         \A i, j \in 1..Len(h) : h[i] = h[j] => i = j }

Candidates == UNION { [1..k -> Labels] : k \in 0..MaxCands }

\* [a-z0-9]
IsLowerAlnum(c) ==
    c \in {"a", "b", "c", "d", "e", "f", "g", "h", "i", "j", "k", "l", "m", "n", "o", "p", "q",
            "r", "s", "t", "u", "v", "w", "x", "y", "z",
            "0", "1", "2", "3", "4", "5", "6", "7", "8", "9"}

\* Mutant: the label not lower-cased
norm_col_as_written(name) == SelectSeq(Strip(name), IsLowerAlnum)

\* re.sub(r"[^a-z0-9]", "", str(name).strip().lower())
norm_col(name) == SelectSeq(Lower(Strip(name)), IsLowerAlnum)

\* norm = {_norm_col(c): c for c in df.columns}: a later column replaces an
\* earlier one with the same key. norm[key], the empty label when key is not in norm.
norm_get(columns, key) ==
    LET at == {k \in 1..Len(columns) : norm_col(columns[k]) = key}
    IN  IF at = {} THEN << >> ELSE columns[CHOOSE k \in at : \A j \in at : j <= k]

\* Mutant: the columns tried in turn, each against all the candidates
RECURSIVE pick_col_by_column(_, _)
pick_col_by_column(columns, candidates) ==
    IF columns = << >> THEN << >>
    ELSE IF \E k \in 1..Len(candidates) : norm_col(candidates[k]) = norm_col(Head(columns))
         THEN Head(columns)
    ELSE pick_col_by_column(Tail(columns), candidates)

\* _pick_col: the candidates tried in turn; the empty label stands for None
RECURSIVE pick_col(_, _)
pick_col(columns, candidates) ==
    IF candidates = << >> THEN << >>
    ELSE IF norm_get(columns, norm_col(Head(candidates))) # << >>
         THEN norm_get(columns, norm_col(Head(candidates)))
    ELSE pick_col(columns, Tail(candidates))

\* col = _pick_col(df, [...])
PickCol ==
    /\ call.fn = "_pick_col" /\ ~call.done
    /\ call' = [call EXCEPT !.done = TRUE, !.col = pick_col(call.columns, call.candidates)]
    /\ UNCHANGED <<syncVars, customers, gpsStatus, sheet, records, gpsPos, gpsReqs>>

\* the most rows a worksheet has, its header rows among them
MaxRows == 3

\* fgColor.rgb of a cell, alpha first: no fill, yellow, red, green
NoFill == <<"0", "0", "0", "0", "0", "0", "0", "0">>
YellowFill == <<"F", "F", "F", "F", "F", "F", "0", "0">>
RedFill == <<"F", "F", "F", "F", "0", "0", "0", "0">>
GreenFill == <<"F", "F", "0", "0", "B", "0", "5", "0">>

\* str.upper(), on the digits of a colour
UpperChar(c) ==
    CASE c = "a" -> "A" [] c = "b" -> "B" [] c = "c" -> "C" [] c = "d" -> "D"
      [] c = "e" -> "E" [] c = "f" -> "F" [] OTHER -> c

Upper(s) == [k \in 1..Len(s) |-> UpperChar(s[k])]

\* any(sig in rgb_up for sig in ("FFFF00", "FFFFFF00"))
is_yellow(rgb) ==
    \/ IsSubstr(<<"F", "F", "F", "F", "0", "0">>, Upper(rgb))
    \/ IsSubstr(<<"F", "F", "F", "F", "F", "F", "0", "0">>, Upper(rgb))

\* Mutant: the Excel row numbers turned into indices one too high
get_highlighted_row_indices_late(ws, header_row) ==
    LET ignored_excel_rows ==
            {r \in (header_row + 1)..Len(ws) : \E c \in 1..Len(ws[r]) : is_yellow(ws[r][c])}
    IN  {r - header_row : r \in ignored_excel_rows}

\* get_highlighted_row_indices: ws[r] are the fills of the cells of Excel row r;
\* the rows after the header that have a yellow cell, as data-frame indices
get_highlighted_row_indices(ws, header_row) ==
    LET ignored_excel_rows ==
            {r \in (header_row + 1)..Len(ws) : \E c \in 1..Len(ws[r]) : is_yellow(ws[r][c])}
    IN  {r - header_row - 1 : r \in ignored_excel_rows}

\* The worksheets: rows of two cells, each cell with one of the fills
Worksheets ==
    UNION { [1..k -> [1..2 -> {NoFill, YellowFill, RedFill, GreenFill}]] : k \in 1..MaxRows }

\* ignored_indices = get_highlighted_row_indices(FILE_PATH, header_row=...)
HighlightedRows ==
    /\ call.fn = "get_highlighted_row_indices" /\ ~call.done
    /\ call' = [call EXCEPT !.done = TRUE,
                             !.ignored = get_highlighted_row_indices(call.ws, call.header_row)]
    /\ UNCHANGED <<syncVars, customers, gpsStatus, sheet, records, gpsPos, gpsReqs>>

\* the most address components a geocoding result has
MaxComps == 2

\* The answers a geocoding request can get: none, a non-200 one, a status
\* other than OK, and OK with the components of the first result
GeoCalls ==
    LET comp == { Comp(l, n) : l \in BOOLEAN,
                               n \in {<<"T">>, <<"k", "a", "n">>, <<"G", "a", "l", "l", "e">>} }
    IN  { Geo(k, << >>) : k \in {"transport", "http", "status"} }
           \cup { Geo("ok", c) : c \in UNION { [1..n -> comp] : n \in 0..MaxComps } }

\* district_name = get_district_from_gmaps(town_name)
GetDistrict ==
    /\ call.fn = "get_district_from_gmaps" /\ ~call.done
    /\ call' = [call EXCEPT !.done = TRUE,
                             !.reqs = get_district_from_gmaps(call.geo).reqs,
                             !.name = get_district_from_gmaps(call.geo).name]
    /\ UNCHANGED <<syncVars, customers, gpsStatus, sheet, records, gpsPos, gpsReqs>>

InitFn ==
    /\ SyncInit /\ GpsInit
    /\ call \in { [fn |-> "_split_relations", val |-> c, done |-> FALSE, rels |-> << >>, data |-> NoBody]
                    : c \in FormCells }
               \cup { [fn |-> "_pick_col", columns |-> h, candidates |-> c, done |-> FALSE, col |-> << >>]
                    : h \in Headers, c \in Candidates }
               \cup { [fn |-> "get_highlighted_row_indices", ws |-> w, header_row |-> h,
                      done |-> FALSE, ignored |-> {}]
                    : w \in Worksheets, h \in {1, 2} }
               \cup { [fn |-> "get_district_from_gmaps", geo |-> g, done |-> FALSE,
                      reqs |-> << >>, name |-> << >>]
                    : g \in GeoCalls }

NextFn == SplitRelations \/ PickCol \/ HighlightedRows \/ GetDistrict

SpecFn == InitFn /\ [][NextFn]_vars

---------------------------------------------------------------------------
\* gps.py: the customer upload, with coordinates from the geocoder

\* the most rows the customer sheet has
MaxSheet == 2

\* A cell of the sheet: empty, a whole number, or a text
Empty == [kind |-> "empty", n |-> 0, s |-> << >>]
Number(n) == [kind |-> "int", n |-> n, s |-> << >>]
Text(s) == [kind |-> "str", n |-> 0, s |-> s]

\* A row of the sheet: its cells, and the fill of each of its cells
SheetRow(name, address, code, fills) ==
    [name |-> name, address |-> address, code |-> code, fills |-> fills]

\* How the cells of a row may be filled: none, one yellow, one red
RowFills == { <<NoFill, NoFill, NoFill>>, <<NoFill, YellowFill, NoFill>>, <<RedFill, NoFill, NoFill>> }

\* The worksheet as openpyxl loads it: the header row, then the rows
Worksheet(sh) == <<<<NoFill, NoFill, NoFill>>>> \o [k \in 1..Len(sh) |-> sh[k].fills]

\* The rows the customer sheet may hold
SheetRows ==
    { SheetRow(n, a, c, f) :
        n \in {Text(<<"N">>), Empty, Text(<<"N", "o", "n", "e">>)},
        a \in {Text(<<"a">>), Empty},
        c \in {Empty, Number(0), Number(7), Text(<<"C", "7">>)},
        f \in RowFills }

Sheets == UNION { [1..k -> SheetRows] : k \in 1..MaxSheet }

\* pd.read_excel without dtype: a column with an empty cell and no text is
\* read as floats, the empty cells as NaN; a column with a text keeps each
\* value as it is. df.where(pd.notna(df), None) then puts None for NaN,
\* except that in a float column NaN stays or becomes None with the pandas at
\* hand (keepNaN).
read_cell(column, cell, keepNaN) ==
    LET numeric == \A k \in 1..Len(column) : column[k].kind \in {"empty", "int"}
        holes == \E k \in 1..Len(column) : column[k].kind = "empty"
    IN  IF numeric /\ holes
        THEN IF cell.kind = "int" THEN [kind |-> "float", n |-> cell.n, s |-> << >>]
             ELSE IF keepNaN THEN [kind |-> "nan", n |-> 0, s |-> << >>]
             ELSE [kind |-> "none", n |-> 0, s |-> << >>]
        ELSE IF cell.kind = "empty" THEN [kind |-> "none", n |-> 0, s |-> << >>]
        ELSE cell

\* The record of sheet row k
read_row(sh, k, keepNaN) ==
    [at |-> k,
     name |-> read_cell([j \in 1..Len(sh) |-> sh[j].name], sh[k].name, keepNaN),
     address |-> read_cell([j \in 1..Len(sh) |-> sh[j].address], sh[k].address, keepNaN),
     code |-> read_cell([j \in 1..Len(sh) |-> sh[j].code], sh[k].code, keepNaN)]

\* records: the rows whose data-frame index (row k has index k - 1) is not
\* among the highlighted ones and whose name is not the text 'None'
RECURSIVE read_records(_, _, _)
read_records(sh, k, keepNaN) ==
    IF k > Len(sh) THEN << >>
    ELSE IF k - 1 \in get_highlighted_row_indices(Worksheet(sh), 1)
         THEN read_records(sh, k + 1, keepNaN)
    ELSE IF read_row(sh, k, keepNaN).name = Text(<<"N", "o", "n", "e">>)
         THEN read_records(sh, k + 1, keepNaN)
    ELSE <<read_row(sh, k, keepNaN)>> \o read_records(sh, k + 1, keepNaN)

\* bool(v)
Truthy(v) ==
    CASE v.kind = "none" -> FALSE
      [] v.kind = "nan" -> TRUE
      [] v.kind \in {"int", "float"} -> v.n # 0
      [] OTHER -> v.s # << >>

Digit(d) == CASE d = 0 -> "0" [] d = 1 -> "1" [] d = 2 -> "2" [] d = 3 -> "3" [] d = 4 -> "4"
              [] d = 5 -> "5" [] d = 6 -> "6" [] d = 7 -> "7" [] d = 8 -> "8" [] OTHER -> "9"

RECURSIVE IntText(_)
IntText(n) == IF n < 10 THEN <<Digit(n)>> ELSE Append(IntText(n \div 10), Digit(n % 10))

\* str(v)
str(v) ==
    CASE v.kind = "none" -> <<"N", "o", "n", "e">>
      [] v.kind = "nan" -> <<"n", "a", "n">>
      [] v.kind = "int" -> IntText(v.n)
      [] v.kind = "float" -> IntText(v.n) \o <<".", "0">>
      [] OTHER -> v.s

\* How the geocoding request ends: no response, a non-200 response, a status
\* other than OK, or OK with the location of the first result
Located(kind, lat, lng) == [kind |-> kind, lat |-> lat, lng |-> lng]

Locations ==
    { Located("transport", 0, 0), Located("http", 0, 0), Located("status", 0, 0),
      Located("ok", 6, 80), Located("ok", 0, 80) }

\* A coordinate: a number, or None
Coord(n) == [set |-> TRUE, n |-> n]
NoCoord == [set |-> FALSE, n |-> 0]

\* Mutant: a status that is not OK answered with a half pair
get_coordinates_half(geo) ==
    IF geo.kind = "ok" THEN <<Coord(geo.lat), Coord(geo.lng)>>
    ELSE IF geo.kind = "status" THEN <<Coord(geo.lat), NoCoord>>
    ELSE <<NoCoord, NoCoord>>

\* get_coordinates: (lat, lng) of an OK answer, (None, None) of any other
get_coordinates(geo) ==
    IF geo.kind = "ok" THEN <<Coord(geo.lat), Coord(geo.lng)>> ELSE <<NoCoord, NoCoord>>

\* The JSON body of the create: the keys in has are sent, a coordinate that is
\* not set as null
CustomerBody(has, rec, latitude, longitude, id) ==
    [has |-> has, CUSTOMER_NAME |-> rec.name, CUSTOMER_FULL_ADDRESS |-> rec.address,
     CUSTOMER_CODE |-> rec.code, latitude |-> latitude, longitude |-> longitude, id |-> id]

GpsReq(op, body, res) == [op |-> op, body |-> body, res |-> res]

NoCustomer == CustomerBody({}, [name |-> Empty, address |-> Empty, code |-> Empty], NoCoord, NoCoord, << >>)

\* How the POST ends: the store takes a record unless its id is taken
post_result(c, body, mu) ==
    IF mu = "ok" /\ "id" \in body.has /\ \E k \in 1..Len(c) : "id" \in c[k].has /\ c[k].id = body.id
    THEN "http" ELSE mu

\* Mutant: a record without coordinates not uploaded
upload_record_located_only(c, rec, geo, mu) ==
    LET pair == get_coordinates(geo)
        located == Truthy(rec.address)
        keyed == Truthy(rec.code)
        body == CustomerBody({"CUSTOMER_NAME", "CUSTOMER_FULL_ADDRESS", "CUSTOMER_CODE"}
                                \cup (IF located THEN {"latitude", "longitude"} ELSE {})
                                \cup (IF keyed THEN {"id"} ELSE {}),
                             rec,
                             IF located THEN pair[1] ELSE NoCoord,
                             IF located THEN pair[2] ELSE NoCoord,
                             IF keyed THEN str(rec.code) ELSE << >>)
        res == post_result(c, body, mu)
        gmaps == IF located THEN <<GpsReq("geocode", NoCustomer, geo.kind)>> ELSE << >>
    IN  IF ~(Truthy(rec.name) /\ rec.name # Text(<<"N", "o", "n", "e">>))
        THEN [reqs |-> << >>, customers |-> c]
        ELSE IF located /\ ~pair[1].set THEN [reqs |-> gmaps, customers |-> c]
        ELSE [reqs |-> gmaps \o <<GpsReq("create", body, res)>>,
              customers |-> IF res = "ok" THEN Append(c, body) ELSE c]

\* One turn of the loop of upload_to_pocketbase. geo is how the geocoding
\* request ends, mu how the POST ends.
upload_record(c, rec, geo, mu) ==
    LET pair == get_coordinates(geo)
        located == Truthy(rec.address)
        keyed == Truthy(rec.code)
        body == CustomerBody({"CUSTOMER_NAME", "CUSTOMER_FULL_ADDRESS", "CUSTOMER_CODE"}
                                \cup (IF located THEN {"latitude", "longitude"} ELSE {})
                                \cup (IF keyed THEN {"id"} ELSE {}),
                             rec,
                             IF located THEN pair[1] ELSE NoCoord,
                             IF located THEN pair[2] ELSE NoCoord,
                             IF keyed THEN str(rec.code) ELSE << >>)
        res == post_result(c, body, mu)
        gmaps == IF located THEN <<GpsReq("geocode", NoCustomer, geo.kind)>> ELSE << >>
    IN  IF ~(Truthy(rec.name) /\ rec.name # Text(<<"N", "o", "n", "e">>))
        THEN [reqs |-> << >>, customers |-> c]
        ELSE [reqs |-> gmaps \o <<GpsReq("create", body, res)>>,
              customers |-> IF res = "ok" THEN Append(c, body) ELSE c]

\* The module up to the call of upload_to_pocketbase: the sheet is read, the
\* highlighted rows are dropped
GpsStart ==
    /\ gpsStatus = "idle"
    /\ \E keepNaN \in BOOLEAN : records' = read_records(sheet, 1, keepNaN)
    /\ gpsStatus' = "running"
    /\ UNCHANGED <<syncVars, call, customers, sheet, gpsPos, gpsReqs>>

GpsRow ==
    /\ gpsStatus = "running"
    /\ gpsPos < Len(records)
    /\ \E geo \in Locations, mu \in CallResults :
          LET r == upload_record(customers, records[gpsPos + 1], geo, mu)
          IN  /\ customers' = r.customers
              /\ gpsReqs' = r.reqs
    /\ gpsPos' = gpsPos + 1
    /\ UNCHANGED <<syncVars, call, gpsStatus, sheet, records>>

GpsEnd ==
    /\ gpsStatus = "running"
    /\ gpsPos = Len(records)
    /\ gpsStatus' = "done"
    /\ gpsReqs' = << >>
    /\ UNCHANGED <<syncVars, call, customers, sheet, records, gpsPos>>

InitGps ==
    /\ SyncInit /\ call = NoCall
    /\ customers = << >>
    /\ gpsStatus = "idle"
    /\ sheet \in Sheets
    /\ records = << >>
    /\ gpsPos = 0
    /\ gpsReqs = << >>

NextGps == GpsStart \/ GpsRow \/ GpsEnd

SpecGps == InitGps /\ [][NextGps]_vars

---------------------------------------------------------------------------
\* Properties

\* The places of a request log that hold a request of one of the kinds ops
ReqsOf(reqs, ops) == {k \in 1..Len(reqs) : reqs[k].op \in ops}

Mutations == {"create", "update"}

\* The step is a turn of a loop
RowStep == pos' = pos + 1

IsPrefix(a, b) == Len(a) <= Len(b) /\ a = SubSeq(b, 1, Len(a))

\* A record created by a step of pb.py
NewRecord == store'[Len(store')]

\* C1: the item sync never creates a second record of an identity. A step of
\* pb.py that adds a record with a non-empty Item_Code adds it only when no
\* record holds that code; one that adds a record synced by name (empty code)
\* adds it only when no record synced by name holds that name. Store calls may
\* fail in any way.
C1_NoDuplicateIdentity ==
    [][ (prog = "pb" /\ Len(store') > Len(store)) =>
          IF NewRecord.Item_Code # << >>
          THEN \A k \in 1..Len(store) : store[k].Item_Code # NewRecord.Item_Code
          ELSE \A k \in 1..Len(store) :
                  store[k].Item_Code = << >> => store[k].Item_Name # NewRecord.Item_Name ]_vars

\* The run of pb.py in progress repeats the last run: same header, same rows so
\* far, same relation id; that run started on an empty store, was no dry run,
\* and no store call has failed in either.
SecondRun ==
    /\ prog = "pb" /\ status \in {"running", "exit0"}
    /\ prev.prog = "pb" /\ prev.clean
    /\ cols = prev.cols /\ args.rel = prev.rel
    /\ IsPrefix(rows, prev.rows)
    /\ ~start.failed

\* C2: the second of two equal runs of pb.py over an empty store, with no store
\* call failing, issues no create and no update.
C2_SecondRunIssuesNothing ==
    SecondRun => ReqsOf(rowReqs, Mutations) = {}

\* C3: a store call that fails for a row, in whatever way, does not stop the
\* run: after the row the run is still going.
C3_FailureNeverStops ==
    (prog \in {"pb", "item"} /\ outcome # "none"
        /\ \E k \in 1..Len(rowReqs) : rowReqs[k].res # "ok")
    => status = "running"

\* A list without its later duplicates, first occurrences in order
RECURSIVE Dedup(_)
Dedup(l) ==
    IF l = << >> THEN << >>
    ELSE LET front == Dedup(SubSeq(l, 1, Len(l) - 1))
         IN  IF InSeq(l[Len(l)], front) THEN front ELSE Append(front, l[Len(l)])

\* A list without its entries that are empty or white space
NonBlank(l) == SelectSeq(l, LAMBDA e : \E k \in 1..Len(e) : e[k] \notin {" ", "\t", "\n"})

\* The relation list of the record an update request of this step is for, as
\* the program got it: from the store by the lookup (pb.py), from update.json
\* (update.py)
ListBefore(r) == IF prog = "pb" THEN store[r.id].Form ELSE export[pos + 1].Form.list

\* The record the lookup of this step of pb.py returned, 0 when there is none
Matched ==
    IF prog = "pb" /\ Len(rowReqs') >= 1 /\ rowReqs'[1].op = "lookup" /\ rowReqs'[1].res = "ok"
    THEN rowReqs'[1].id ELSE 0

C5_NoLinkDestroyed ==
    [][ \A k \in 1..Len(store) : \A j \in 1..Len(store[k].Form) :
           store[k].Form[j] # << >> => InSeq(store[k].Form[j], store'[k].Form) ]_vars

\* C6: a row whose record is found with the relation id already in its list is
\* skipped: no create, no update, the store as it was. The same for an item of
\* update.json that lists the id.
C6_SkipLeavesStore ==
    [][ RowStep =>
          /\ (Matched # 0 /\ InSeq(args.rel, store[Matched].Form)) =>
                (ReqsOf(rowReqs', Mutations) = {} /\ store' = store)
          /\ (prog = "update" /\ export[pos + 1] # Stray
                /\ InSeq(args.rel, export[pos + 1].Form.list)) =>
                (rowReqs' = << >> /\ store' = store) ]_vars

\* C6's case: pb.py found the record and skipped the row
C6_Skipped ==
    /\ prog = "pb" /\ outcome = "unchanged"
    /\ Len(rowReqs) = 1 /\ rowReqs[1].id # 0
    /\ InSeq(args.rel, store[rowReqs[1].id].Form)

\* C7: an update carries the changed field alone, Form for an item and
\* district for a town, and leaves every other field of every record as it was.
C7_UpdateSendsChangedFieldOnly ==
    [][ /\ \A k \in ReqsOf(rowReqs', {"update"}) :
              rowReqs'[k].body.has = IF prog' = "towns" THEN {"district"} ELSE {"Form"}
        /\ \A k \in 1..Len(store) :
              /\ store'[k].Item_Name = store[k].Item_Name
              /\ store'[k].Item_Code = store[k].Item_Code
              /\ store'[k].Unit = store[k].Unit
        /\ \A k \in 1..Len(towns) : towns'[k].name = towns[k].name ]_vars

\* C7's case: pb.py updated a record whose stored name is not the row's name
C7_UpdatedOtherName ==
    /\ prog = "pb" /\ outcome = "updated"
    /\ \E k \in ReqsOf(rowReqs, {"update"}) :
          /\ rowReqs[k].res = "ok"
          /\ store[rowReqs[k].id].Item_Name # CellText(cols.name, rows[pos].name)

\* C8: a row of pb.py makes at most one lookup and at most one create or update.
C8_OneLookupOneMutation ==
    (prog = "pb" /\ outcome # "none") =>
        /\ Cardinality(ReqsOf(rowReqs, {"lookup"})) <= 1
        /\ Cardinality(ReqsOf(rowReqs, Mutations)) <= 1

\* C8's case: a row that made its lookup and its one mutation
C8_LookupAndMutation ==
    /\ prog = "pb" /\ outcome \in {"created", "updated"}
    /\ Cardinality(ReqsOf(rowReqs, {"lookup"})) = 1
    /\ Cardinality(ReqsOf(rowReqs, Mutations)) = 1

\* C9: a dry run makes no create, no update and no login request, and its store
\* is the store it started on.
C9_DryRunChangesNothing ==
    (args.dry /\ prog \in {"pb", "update", "item"}) =>
        /\ ReqsOf(rowReqs, {"create", "update", "login"}) = {}
        /\ store = start.store

\* C9's case: a dry run of pb.py, asked to log in as admin, that got to its end
\* with a row it would have written
C9_DryRunEnded ==
    /\ args.dry /\ prog = "pb" /\ status = "exit0" /\ tally["dry"] >= 1

\* print(f"Done. Created {created} record(s). Updated {updated} record(s).")
pb_summary == {"created", "updated"}

\* print(f"Done. Updated={updated} Skipped={skipped} Failed={failed}")
update_summary == {"updated", "skipped", "failed"}

\* print(f"Done. Created {created} record(s).")
item_summary == {"created"}

\* The counters the last line of a program prints
Summary(p) ==
    IF p = "pb" THEN pb_summary
    ELSE IF p = "update" THEN update_summary
    ELSE IF p = "item" THEN item_summary
    ELSE {}

Counted == counters.created + counters.updated + counters.skipped + counters.failed

Programs == {"pb", "update", "item"}

\* C11: a run that has taken a row from its source ends with exit code 0; a
\* run ends otherwise only before its first row (source unreadable,
\* configuration missing, authentication failed).
C11_StartedRunExitsZero ==
    (prog \in Programs /\ status \in {"exit1", "crashed"}) => pos = 0

Absent(has, cell) ==
    \/ ~has
    \/ cell.kind \in {"none", "nan"}
    \/ Strip(cell.s) = << >>
    \/ Strip(cell.s) = <<"N", "o", "n", "e">>

\* C13: a row whose name and code cells are both absent is rejected without
\* raising: no request is made for it and the run goes on.
C13_AbsentIdentityRejected ==
    (/\ prog \in {"pb", "item"} /\ outcome # "none"
     /\ Absent(cols.name, rows[pos].name) /\ Absent(cols.code, rows[pos].code)) =>
        /\ outcome = "invalid"
        /\ rowReqs = << >>
        /\ status = "running"

\* The parts of a text between its runs of comma, semicolon, newline and tab
Separators == {",", ";", "\n", "\t"}

PartEnd(s, i) ==
    CHOOSE j \in i..Len(s) : /\ \A k \in i..j : s[k] \notin Separators
                             /\ j = Len(s) \/ s[j + 1] \in Separators

RECURSIVE PartsFrom(_, _)
PartsFrom(s, i) ==
    IF i > Len(s) THEN << >>
    ELSE IF s[i] \in Separators THEN PartsFrom(s, i + 1)
    ELSE <<SubSeq(s, i, PartEnd(s, i))>> \o PartsFrom(s, PartEnd(s, i) + 1)

\* A text without the white space around it
Trimmed(p) ==
    LET ink == {k \in 1..Len(p) : p[k] \notin {" ", "\t", "\n"}}
    IN  IF ink = {} THEN << >>
        ELSE SubSeq(p, CHOOSE k \in ink : \A j \in ink : k <= j,
                       CHOOSE k \in ink : \A j \in ink : k >= j)

\* The parts of a cell, trimmed, the empty ones dropped
RelationsOf(cell) ==
    IF cell.kind # "str" THEN << >>
    ELSE LET parts == PartsFrom(cell.s, 1)
         IN  SelectSeq([k \in 1..Len(parts) |-> Trimmed(parts[k])], LAMBDA e : e # << >>)

Parsed == call.fn = "_split_relations" /\ call.done

Letters == {"a", "e"}
Digits == {"1"}

RECURSIVE Normal(_)
Normal(label) ==
    IF label = << >> THEN << >>
    ELSE LET c == Head(label)
         IN  IF c \in Letters \cup Digits THEN <<c>> \o Normal(Tail(label))
             ELSE IF c = "A" THEN <<"a">> \o Normal(Tail(label))
             ELSE IF c = "E" THEN <<"e">> \o Normal(Tail(label))
             ELSE Normal(Tail(label))

Picked == call.fn = "_pick_col" /\ call.done

\* C15 as claimed: a candidate resolves to every raw column that is equal to it
\* after normalization, and to no column that differs from it.
C15_ResolvesEqualLabels ==
    (Picked /\ Len(call.candidates) = 1) =>
        /\ \A k \in 1..Len(call.columns) :
              Normal(call.columns[k]) = Normal(call.candidates[1]) => call.col = call.columns[k]
        /\ call.col # << >> => Normal(call.col) = Normal(call.candidates[1])

\* C15, amended: a candidate resolves to a raw column equal to it after
\* normalization whenever there is one, the last such column of the sheet when
\* several raw columns normalize alike, and to no column that differs from it
\* after normalization.
C15_ResolvesLastEqualLabel ==
    (Picked /\ Len(call.candidates) = 1) =>
        LET same == {k \in 1..Len(call.columns) :
                        Normal(call.columns[k]) = Normal(call.candidates[1])}
        IN  /\ same # {} => \E k \in same : /\ call.col = call.columns[k]
                                            /\ \A j \in same : j <= k
            /\ same = {} => call.col = << >>

\* C15's case: 'A E' resolved by the candidate 'a_e'
C15_ResolvedOtherSpelling ==
    /\ Picked
    /\ call.columns = << <<"a">>, <<"A", " ", "E">> >>
    /\ call.candidates = << <<"a", "_", "e">> >>
    /\ call.col = <<"A", " ", "E">>

\* the candidates that match a raw column
Matching == {i \in 1..Len(call.candidates) :
                \E k \in 1..Len(call.columns) :
                    Normal(call.columns[k]) = Normal(call.candidates[i])}

\* C16: _pick_col returns a raw column matched by the first candidate that
\* matches any raw column, and no column when no candidate matches.
C16_FirstCandidateWins ==
    Picked =>
        /\ Matching = {} => call.col = << >>
        /\ Matching # {} =>
              /\ \E k \in 1..Len(call.columns) : call.col = call.columns[k]
              /\ \E i \in Matching : /\ \A j \in Matching : i <= j
                                     /\ Normal(call.col) = Normal(call.candidates[i])

\* C16's case: the second column is picked, because it matches the first
\* candidate, over the first column, which matches the second
C16_PreferenceOverSheetOrder ==
    /\ Picked
    /\ call.columns = << <<"a">>, <<"A", "E">> >>
    /\ call.candidates = << <<"a", "_", "e">>, <<"a">> >>
    /\ call.col = <<"A", "E">>

\* C17: the lookup of a row with a code is on Item_Code and the code, whether
\* or not the row has a name; the lookup of a row without a code is on
\* Item_Name and the name; and what the store reads in the filter sent is that
\* field, the operator = and that whole value.
C17_LookupByCodeThenName ==
    (prog = "pb" /\ outcome # "none") =>
        LET item_code == CellText(cols.code, rows[pos].code)
            item_name == CellText(cols.name, rows[pos].name)
        IN  \A k \in ReqsOf(rowReqs, {"lookup"}) :
               LET f == ReadFilter(rowReqs[k].filter)
               IN  /\ f.ok /\ f.op = "="
                   /\ item_code # << >> => f.field = "Item_Code" /\ f.value = item_code
                   /\ item_code = << >> => f.field = "Item_Name" /\ f.value = item_name

\* The geocoding and the create requests of the last turn of the upload
Geocodes == {k \in 1..Len(gpsReqs) : gpsReqs[k].op = "geocode"}
Creates == {k \in 1..Len(gpsReqs) : gpsReqs[k].op = "create"}

\* C18: whatever the end of the geocoding request (no response, a non-200
\* response, a status other than OK, OK), the pair get_coordinates hands back
\* has both coordinates or neither, both exactly when the answer is OK, and
\* the upload goes on to its create.
C18_BothOrNeither ==
    \A g \in Geocodes :
        /\ Creates # {}
        /\ \A k \in Creates :
              /\ gpsReqs[k].body.latitude.set = gpsReqs[k].body.longitude.set
              /\ gpsReqs[k].body.latitude.set <=> gpsReqs[g].res = "ok"

\* C18's case: the provider answered with a status other than OK and the pair
\* came back with neither coordinate
C18_UnresolvedPair ==
    \E g \in Geocodes, k \in Creates :
        /\ gpsReqs[g].res = "status"
        /\ ~gpsReqs[k].body.latitude.set /\ ~gpsReqs[k].body.longitude.set

Written(cell) == IF cell.kind = "int" THEN IntText(cell.n) ELSE cell.s

\* C20: the create payload of a row whose code cell is not empty has the id,
\* and the id is the code as the sheet has it.
C20_IdIsCodeAsWritten ==
    \A k \in Creates :
        LET cell == sheet[records[gpsPos].at].code
        IN  cell.kind # "empty" =>
               /\ "id" \in gpsReqs[k].body.has
               /\ gpsReqs[k].body.id = Written(cell)

\* A yellow colour: RGB FFFF00, alone or after the two digits of an alpha
Yellow(rgb) ==
    \/ rgb = <<"F", "F", "F", "F", "0", "0">>
    \/ Len(rgb) = 8 /\ SubSeq(rgb, 3, 8) = <<"F", "F", "F", "F", "0", "0">>

\* A row flagged for exclusion: one of its cells is filled yellow
Flagged(fills) == \E c \in 1..Len(fills) : Yellow(fills[c])

\* C21: no row of the sheet that is highlighted yellow is among the records
\* the upload goes through, whatever its place in the sheet, so that no
\* geocoding request and no create request is ever issued for such a row.
C21_HighlightedRowsNeverProcessed ==
    gpsStatus # "idle" =>
        /\ \A k \in 1..Len(records) : ~Flagged(sheet[records[k].at].fills)
        /\ gpsReqs # << >> => ~Flagged(sheet[records[gpsPos].at].fills)

\* C21's case: the first row of the sheet is highlighted, and the requests
\* of the upload are those of the second row
C21_SecondRowAfterHighlighted ==
    /\ gpsStatus = "running" /\ Len(sheet) = 2
    /\ Flagged(sheet[1].fills) /\ ~Flagged(sheet[2].fills)
    /\ gpsPos = 1 /\ records[1].at = 2
    /\ Creates # {}

\* C26: get_highlighted_row_indices returns the index r - header_row - 1 of
\* every Excel row r after the header that has a cell filled yellow, and of
\* no other row: a row filled with another colour only is not in the result.
C26_ExactlyTheYellowRows ==
    (call.fn = "get_highlighted_row_indices" /\ call.done) =>
        call.ignored = {r - call.header_row - 1 :
                          r \in {q \in (call.header_row + 1)..Len(call.ws) : Flagged(call.ws[q])}}

\* The records a step of a run writes: those added and those changed
StepWrites == {i \in 1..Len(store') : i > Len(store) \/ store'[i] # store[i]}

\* The records the run has written so far
Settled == {i \in 1..Len(store) : i > Len(start.store) \/ store[i] # start.store[i]}

\* C22: every step of a run writes at most one record, by one create or one
\* update, and never a record the run has written before: at every moment
\* each record is as it was before the run or as the run leaves it.
C22_EachRecordWrittenOnce ==
    [][status = "running" =>
          /\ Len(store') \in {Len(store), Len(store) + 1}
          /\ Cardinality(StepWrites) <= 1
          /\ StepWrites \cap Settled = {}]_vars

\* The requests for records
RecordOps == {"lookup", "create", "update"}

\* C23: at every step of pb.py, update.py and item.py (the saving of the export
\* is none) a login request comes alone and before any row; a login answered 2xx with a token leaves the session with the
\* header "Bearer " + that token, any other login ends the run there; record
\* requests are made only by a run that got past it, the header stays as it is
\* through the run, and every record request of an authenticated run that is
\* no dry run carries it; in public mode there is no login and no request
\* carries an Authorization header.
C23_RequestsCarryLoginToken ==
    [][(prog' \in Programs /\ export' = export) =>
          /\ \A k \in ReqsOf(rowReqs', {"login"}) :
                /\ pos' = 0 /\ ReqsOf(rowReqs', RecordOps) = {}
                /\ IF rowReqs'[k].res = "ok" /\ rowReqs'[k].token # << >>
                   THEN authHdr' = Bearer(rowReqs'[k].token)
                   ELSE status' = "crashed"
          /\ ReqsOf(rowReqs', RecordOps) # {} =>
                /\ status = "running" /\ prog' = prog
                /\ authHdr' = authHdr
          /\ (args'.auth = "admin" /\ ~args'.dry) =>
                \A k \in ReqsOf(rowReqs', RecordOps) :
                    /\ authHdr' # NoAuth
                    /\ rowReqs'[k].auth = authHdr'
          /\ args'.auth = "public" =>
                /\ ReqsOf(rowReqs', {"login"}) = {}
                /\ \A k \in 1..Len(rowReqs') : rowReqs'[k].auth = NoAuth]_vars

\* C23's case: a row of an authenticated run of pb.py is created with the
\* token of the login in its header
C23_CreatedWithToken ==
    /\ prog = "pb" /\ args.auth = "admin" /\ ~args.dry /\ pos >= 1
    /\ \E k \in ReqsOf(rowReqs, {"create"}) :
          /\ rowReqs[k].res = "ok"
          /\ rowReqs[k].auth = Bearer(Token)

\* The components of the answer tagged administrative_area_level_2
Tagged(geo) == {k \in 1..Len(geo.comps) : geo.comps[k].level2}

\* C24: a call of get_district_from_gmaps issues one request, a geocoding
\* request; when the answer is OK and a component of its first result is
\* tagged administrative_area_level_2, the call returns the name of the first
\* such component; in every other case (no such component, a status other
\* than OK, a non-200 answer, no answer) it returns None.
C24_OneRequestFirstTaggedName ==
    (call.fn = "get_district_from_gmaps" /\ call.done) =>
        /\ Len(call.reqs) = 1 /\ call.reqs[1].op = "geocode"
        /\ IF call.geo.kind = "ok" /\ Tagged(call.geo) # {}
           THEN \E k \in Tagged(call.geo) :
                   /\ \A j \in Tagged(call.geo) : k <= j
                   /\ call.name = call.geo.comps[k].long_name
           ELSE call.name = << >>

\* C24's case: the second component of the answer is the first one tagged,
\* and its name is returned
C24_SecondComponentNamed ==
    /\ call.fn = "get_district_from_gmaps" /\ call.done
    /\ Tagged(call.geo) = {2}
    /\ call.geo.comps[1].long_name # call.geo.comps[2].long_name
    /\ call.name = call.geo.comps[2].long_name

\* C25: a row of pb.py whose lookup request fails has the outcome Failed, and
\* neither a create nor an update request is issued for it.
C25_FailedLookupEndsRow ==
    prog = "pb" =>
        \A k \in ReqsOf(rowReqs, {"lookup"}) :
            rowReqs[k].res # "ok" =>
                /\ outcome = "failed"
                /\ ReqsOf(rowReqs, Mutations) = {}

\* The town a turn of the loop of fix_town_districts is about
TownNow == townList[pos + 1]

\* The name a geocoding request was answered with: that of the first component
\* tagged administrative_area_level_2 of an OK answer; << >> when there is none
Answered(req) ==
    LET tagged == {k \in 1..Len(req.answer) : req.answer[k].level2}
    IN  IF req.res = "ok" /\ tagged # {}
        THEN req.answer[CHOOSE k \in tagged : \A j \in tagged : k <= j].long_name
        ELSE << >>

\* The district records a name matches: those whose name holds it, whatever
\* the case of the letters
MatchedBy(name) ==
    {d \in 1..Len(Districts) : IsSubstr(Lower(name), Lower(Districts[d].name))}

\* C27: a turn of the loop of fix_town_districts sends no request for a town
\* that has a district; a town whose geocoding gives no name, or a name that
\* matches no district record, is sent no update and is left as it is; a turn
\* changes nothing but the district of its own town, to a district the name
\* matches, after an update answered 200; and whatever the geocoding and the
\* update end with, the loop goes on to the next town.
C27_OnlyMissingDistrictsFilled ==
    [][(prog = "towns" /\ status = "running" /\ pos' = pos + 1) =>
          LET geo == ReqsOf(rowReqs', {"geocode"})
              upd == ReqsOf(rowReqs', {"update"})
          IN  /\ TownNow.district # 0 => rowReqs' = << >> /\ towns' = towns
              /\ \A k \in geo :
                    (Answered(rowReqs'[k]) = << >> \/ MatchedBy(Answered(rowReqs'[k])) = {})
                        => upd = {} /\ towns' = towns
              /\ \A k \in upd :
                    /\ rowReqs'[k].id = TownNow.id
                    /\ \E g \in geo : \E d \in MatchedBy(Answered(rowReqs'[g])) :
                          rowReqs'[k].body.district = Districts[d].id
                    /\ IF rowReqs'[k].res = "ok"
                       THEN towns' = [towns EXCEPT ![TownNow.id].district = rowReqs'[k].body.district]
                       ELSE towns' = towns
              /\ upd = {} => towns' = towns
              /\ status' = "running"]_vars

\* C27's case: the update of the first town has failed, the town with a
\* district was passed over, and the third town has got its district
C27_ThirdTownFixedAfterFailure ==
    /\ prog = "towns" /\ pos = 3 /\ tally["failed"] >= 1
    /\ towns[1].district = 0 /\ towns[2] = TownsAtStart[2] /\ towns[3].district # 0
    /\ outcome = "updated"

====
